---- MODULE Spec2Model ----
(***************************************************************************)
(* Momentum computation and swing detection of the tennis-momentum         *)
(* repository (src/features/momentum.py, src/features/swings.py).          *)
(*                                                                         *)
(* A series is a sequence; position p of the code (0-based) is element     *)
(* p + 1 of the sequence.  A momentum value is an integer or NaN.  Smoothed*)
(* values (trend, amp_thr, momentum) are exact fractions <<n, d>> in       *)
(* lowest terms with d > 0; <<0, 0>> is the missing value.  The smoothing  *)
(* spans and quantiles the model draws make the float arithmetic of the    *)
(* code agree with the exact fraction in sign and in being zero: with      *)
(* span 1 or 3 the smoothing factor is 1 or 1/2, and the quantile 0 or 1/2 *)
(* of integers is a dyadic number.                                         *)
(* Across a gap of missing slopes the code divides by a weight sum that   *)
(* is not a power of two; the quotient is rounded but keeps its sign, and  *)
(* its exact value then has an odd factor in the denominator for good, so  *)
(* neither the float nor the fraction is 0 afterwards.                     *)
(* The series carries the default RangeIndex: label and position agree.    *)
(***************************************************************************)
EXTENDS Integers, Sequences, FiniteSets, TLC

VARIABLES
    call,        \* the function that was called
    pc,          \* position inside the call
    m,           \* momentum series (detect_swings and its helpers)
    params,      \* SwingParams
    trend,       \* smoothed slope, after the optional forward fill
    rawtrend,    \* smoothed slope before the forward fill
    amp_thr,     \* amplitude threshold
    pos_idx,     \* surviving candidate positions
    keep_pos,    \* representatives after run compression
    final,       \* running kept list of the cooldown loop
    rest,        \* representatives the cooldown loop has not scanned yet
    swing_flag,  \* 0/1 flag series
    err,         \* "none", or the exception that ended the call
    df_match,    \* columns of the match frame (compute_momentum)
    method,      \* method selector and smoothing arguments (compute_momentum)
    momentum     \* series returned by compute_momentum

vars == <<call, pc, m, params, trend, rawtrend, amp_thr, pos_idx, keep_pos,
          final, rest, swing_flag, err, df_match, method, momentum>>

----------------------------------------------------------------------------
(* Bounds of the model *)

MaxLen == 4
MaxAbs == 1
MaxMag == 2
MaxCool == 2

----------------------------------------------------------------------------
(* Values *)

NaN == -1000

NaNR == <<0, 0>>

Abs(x) == IF x < 0 THEN -x ELSE x

RECURSIVE GCD(_, _)
GCD(a, b) == IF b = 0 THEN a ELSE GCD(b, a % b)

\* the fraction n/d (d > 0) in lowest terms
Rat(n, d) == LET g == GCD(Abs(n), d) IN <<n \div g, d \div g>>

IsNaNR(r) == r[2] = 0
RPos(r) == r[2] > 0 /\ r[1] > 0
RNeg(r) == r[2] > 0 /\ r[1] < 0
RZero(r) == r[2] > 0 /\ r[1] = 0

RECURSIVE Pow(_, _)
Pow(b, e) == IF e = 0 THEN 1 ELSE b * Pow(b, e - 1)

At(s, p) == s[p + 1]

Positions(s) == 0 .. (Len(s) - 1)

RECURSIVE Insert(_, _)
Insert(x, s) ==
    IF s = <<>> THEN <<x>>
    ELSE IF x < Head(s) THEN <<x>> \o s
    ELSE <<Head(s)>> \o Insert(x, Tail(s))

RECURSIVE sorted(_)
sorted(s) == IF s = <<>> THEN <<>> ELSE Insert(s[Len(s)], sorted(SubSeq(s, 1, Len(s) - 1)))

\* the elements of a set of integers in ascending order
RECURSIVE Ascending(_)
Ascending(S) ==
    IF S = {} THEN <<>>
    ELSE LET x == CHOOSE y \in S : \A z \in S : y <= z
         IN <<x>> \o Ascending(S \ {x})

Range(s) == {s[i] : i \in DOMAIN s}

----------------------------------------------------------------------------
(* pandas primitives used by detect_swings *)

\* m.isna().any() in place of m.isna().all()
isna_any(s) == \E i \in DOMAIN s : s[i] = NaN

\* m.isna().all(): true of the empty series as well
isna_all(s) == \A i \in DOMAIN s : s[i] = NaN

\* m.diff()
diff(s) ==
    [i \in DOMAIN s |->
        IF i = 1 \/ s[i] = NaN \/ s[i - 1] = NaN THEN NaN ELSE s[i] - s[i - 1]]

\* One step of ewm(span, adjust=False).mean().  st = [w, k]: the running
\* weighted mean and the number of steps since it last took in a value
\* (old_wt = ((span-1)/(span+1))^k).  alpha = 2/(span+1).
ewm_step(st, cur, span) ==
    IF IsNaNR(st.w)
    THEN IF cur = NaN THEN st ELSE [w |-> Rat(cur, 1), k |-> 0]
    ELSE IF cur = NaN THEN [w |-> st.w, k |-> st.k + 1]
    ELSE LET k == st.k + 1
             o == Pow(span - 1, k)
             a == 2 * Pow(span + 1, k - 1)
         IN  IF st.w = Rat(cur, 1) THEN [w |-> st.w, k |-> 0]
             ELSE [w |-> Rat(o * st.w[1] + a * cur * st.w[2], st.w[2] * (o + a)),
                   k |-> 0]

RECURSIVE ewm_state(_, _, _)
ewm_state(s, i, span) ==
    IF i = 0 THEN [w |-> NaNR, k |-> 0]
    ELSE ewm_step(ewm_state(s, i - 1, span), s[i], span)

\* series.ewm(span=span, adjust=False).mean()
ewm_mean(s, span) == [i \in DOMAIN s |-> ewm_state(s, i, span).w]

\* trend.replace(0, np.nan)
replace_zero(t) == [i \in DOMAIN t |-> IF RZero(t[i]) THEN NaNR ELSE t[i]]

\* trend.ffill(): a missing value takes the last value before it that is
\* not missing; with none before it, it stays missing
RECURSIVE ffill_at(_, _)
ffill_at(t, i) ==
    IF i = 0 THEN NaNR
    ELSE IF ~IsNaNR(t[i]) THEN t[i] ELSE ffill_at(t, i - 1)

ffill(t) == [i \in DOMAIN t |-> ffill_at(t, i)]

\* the zeros are made missing but never filled
fill_zero_no_ffill(t) == replace_zero(t)

fill_zero(t) == ffill(replace_zero(t))

\* lines 46-49 of detect_swings
Trend(s, p) ==
    LET t == ewm_mean(diff(s), p.trend_span)
    IN  IF p.fill_zero_trend THEN fill_zero(t) ELSE t

\* trend.shift(-1) in place of trend.shift(1)
shift_back(t, i) == IF i = Len(t) THEN NaNR ELSE t[i + 1]

\* trend.shift(1)
shift1(t, i) == IF i = 1 THEN NaNR ELSE t[i - 1]

\* lines 52-55: rev at sequence index i
rev(t, i) ==
    \/ RPos(shift1(t, i)) /\ (RNeg(t[i]) \/ RZero(t[i]))
    \/ RNeg(shift1(t, i)) /\ (RPos(t[i]) \/ RZero(t[i]))

\* m.abs() without its missing values, ascending
AbsSorted(s) ==
    LET keep == SelectSeq(s, LAMBDA v : v # NaN)
    IN  sorted([i \in DOMAIN keep |-> Abs(keep[i])])

\* m.abs().quantile(q), linear interpolation; q = <<qn, qd>>
quantile(s, q) ==
    LET a == AbsSorted(s)
        h == (Len(a) - 1) * q[1]
        lo == h \div q[2]
        r == h % q[2]
        hi == IF lo + 2 <= Len(a) THEN lo + 2 ELSE lo + 1
    IN  Rat(a[lo + 1] * q[2] + (a[hi] - a[lo + 1]) * r, q[2])

\* m.abs() >= amp_thr in place of m.abs() > amp_thr
abs_ge_thr(s, p, thr) == At(s, p) # NaN /\ Abs(At(s, p)) * thr[2] >= thr[1]

\* m.abs() > amp_thr at position p (false for a missing value)
abs_gt_thr(s, p, thr) == At(s, p) # NaN /\ Abs(At(s, p)) * thr[2] > thr[1]

\* lines 59-66: positions where candidate holds, ascending
candidates(s, t, thr) ==
    Ascending({p \in Positions(s) : rev(t, p + 1) /\ abs_gt_thr(s, p, thr)})

----------------------------------------------------------------------------
(* Run compression and cooldown *)

\* abs(m.iloc[p]) > abs(m.iloc[q]); a comparison with a missing value is false
abs_gt(s, p, q) == At(s, p) # NaN /\ At(s, q) # NaN /\ Abs(At(s, p)) > Abs(At(s, q))

\* the last of the maxima in place of the first
RECURSIVE max_abs_last(_, _, _)
max_abs_last(s, group, best) ==
    IF group = <<>> THEN best
    ELSE max_abs_last(s, Tail(group),
                      IF abs_gt(s, best, Head(group)) THEN best ELSE Head(group))

\* max(group, key=...): the first element no later element exceeds
RECURSIVE max_abs(_, _, _)
max_abs(s, group, best) ==
    IF group = <<>> THEN best
    ELSE max_abs(s, Tail(group), IF abs_gt(s, Head(group), best) THEN Head(group) ELSE best)

\* inner while of lines 93-95: last index j of the run that starts at i
RECURSIVE run_end(_, _)
run_end(pos, j) ==
    IF j + 1 <= Len(pos) /\ pos[j + 1] = pos[j] + 1 THEN run_end(pos, j + 1) ELSE j

RECURSIVE compress_from(_, _, _)
compress_from(s, pos, i) ==
    IF i > Len(pos) THEN <<>>
    ELSE LET j == run_end(pos, i)
             group == SubSeq(pos, i, j)
         IN  <<max_abs(s, Tail(group), Head(group))>> \o compress_from(s, pos, j + 1)

_compress_consecutive_by_max_abs(s, pos) ==
    IF pos = <<>> THEN <<>> ELSE compress_from(s, sorted(pos), 1)

\* the distance test off by one
cooldown_step_near(s, fin, p, cool) ==
    LET last == fin[Len(fin)]
    IN  IF p - last >= cool - 1 THEN Append(fin, p)
        ELSE IF abs_gt(s, p, last) THEN [fin EXCEPT ![Len(fin)] = p]
        ELSE fin

\* a tie replaces the last kept entry
cooldown_step_tie(s, fin, p, cool) ==
    LET last == fin[Len(fin)]
    IN  IF p - last >= cool THEN Append(fin, p)
        ELSE IF ~abs_gt(s, last, p) THEN [fin EXCEPT ![Len(fin)] = p]
        ELSE fin

\* the smaller magnitude wins
cooldown_step_min(s, fin, p, cool) ==
    LET last == fin[Len(fin)]
    IN  IF p - last >= cool THEN Append(fin, p)
        ELSE IF abs_gt(s, last, p) THEN [fin EXCEPT ![Len(fin)] = p]
        ELSE fin

\* body of the for loop of _apply_cooldown_keep_max_abs, lines 115-121
cooldown_step(s, fin, p, cool) ==
    LET last == fin[Len(fin)]
    IN  IF p - last >= cool THEN Append(fin, p)
        ELSE IF abs_gt(s, p, last) THEN [fin EXCEPT ![Len(fin)] = p]
        ELSE fin

\* the kept position used as a 1-based label
flags_label(s, kept) == [i \in DOMAIN s |-> IF i \in Range(kept) THEN 1 ELSE 0]

\* lines 73-75
flags(s, kept) == [i \in DOMAIN s |-> IF (i - 1) \in Range(kept) THEN 1 ELSE 0]

----------------------------------------------------------------------------
(* momentum.py *)

\* sum and count of the values that are not missing among s[lo..hi]
RECURSIVE window_sum(_, _, _)
window_sum(s, lo, hi) ==
    IF lo > hi THEN <<0, 0>>
    ELSE LET r == window_sum(s, lo + 1, hi)
         IN  IF s[lo] = NaN THEN r ELSE <<r[1] + s[lo], r[2] + 1>>

\* point_result.rolling(window=window, min_periods=1).mean()
rolling_momentum(point_result, window) ==
    [i \in DOMAIN point_result |->
        LET lo == IF i - window + 1 < 1 THEN 1 ELSE i - window + 1
            sc == window_sum(point_result, lo, i)
        IN  IF sc[2] = 0 THEN NaNR ELSE Rat(sc[1], sc[2])]

\* series.ewm(span=span, adjust=False).mean()
ewm_momentum(series, span) == ewm_mean(series, span)

point_col == "point_result"
serve_adj_col == "serve_adj_p1"

\* method "ewm" tests the column of method "srv_ewm"
compute_momentum_wrong_col(df, meth, window, span) ==
    IF meth = "rm" THEN
        IF point_col \notin DOMAIN df
        THEN [err |-> "KeyError", value |-> <<>>]
        ELSE [err |-> "none", value |-> rolling_momentum(df[point_col], window)]
    ELSE IF meth = "ewm" THEN
        IF serve_adj_col \notin DOMAIN df
        THEN [err |-> "KeyError", value |-> <<>>]
        ELSE [err |-> "none",
              value |-> IF point_col \in DOMAIN df
                        THEN ewm_momentum(df[point_col], span) ELSE <<>>]
    ELSE IF meth = "srv_ewm" THEN
        IF serve_adj_col \notin DOMAIN df
        THEN [err |-> "KeyError", value |-> <<>>]
        ELSE [err |-> "none", value |-> ewm_momentum(df[serve_adj_col], span)]
    ELSE [err |-> "ValueError", value |-> <<>>]

\* compute_momentum: [err, value]; value is <<>> when the call raises
compute_momentum(df, meth, window, span) ==
    IF meth = "rm" THEN
        IF point_col \notin DOMAIN df
        THEN [err |-> "KeyError", value |-> <<>>]
        ELSE [err |-> "none", value |-> rolling_momentum(df[point_col], window)]
    ELSE IF meth = "ewm" THEN
        IF point_col \notin DOMAIN df
        THEN [err |-> "KeyError", value |-> <<>>]
        ELSE [err |-> "none", value |-> ewm_momentum(df[point_col], span)]
    ELSE IF meth = "srv_ewm" THEN
        IF serve_adj_col \notin DOMAIN df
        THEN [err |-> "KeyError", value |-> <<>>]
        ELSE [err |-> "none", value |-> ewm_momentum(df[serve_adj_col], span)]
    ELSE [err |-> "ValueError", value |-> <<>>]

----------------------------------------------------------------------------
(* Inputs *)

MaxRows == 2

Spans == {1, 3}
AmpQs == {<<0, 1>>, <<1, 2>>}
Windows == {1, 2}
Methods == {"rm", "ewm", "srv_ewm", "RM", "sma", ""}
Columns == {point_col, serve_adj_col}

Values == (-MaxAbs .. MaxAbs) \cup {NaN}

SeriesUpTo(n) == UNION {[1 .. k -> Values] : k \in 0 .. n}

ParamSet ==
    [trend_span : Spans, amp_q : AmpQs, cool : 0 .. MaxCool, fill_zero_trend : BOOLEAN]

DefaultParams == [trend_span |-> 1, amp_q |-> <<0, 1>>, cool |-> 0, fill_zero_trend |-> TRUE]

\* the scenario of the specification: a triangle wave
Triangle == <<0, 1, 2, 1, 0, -1, -2, -1, 0, 1, 2>>
TriangleParams == [trend_span |-> 1, amp_q |-> <<1, 2>>, cool |-> 2, fill_zero_trend |-> TRUE]

\* reversals at positions 2, 4 and 6 with growing magnitude
Staircase == <<0, 2, 1, 0, 2, 4, 3>>
StaircaseParams == [trend_span |-> 1, amp_q |-> <<0, 1>>, cool |-> 3, fill_zero_trend |-> TRUE]

\* a zigzag: reversals at the consecutive positions 2, 3 and 4
Zigzag == <<0, 1, -2, 3, -1>>

\* reversals at positions 2, 5 and 7, the last one the largest
TwoPeaks == <<0, 2, 1, 0, -1, 1, 3, 2>>

ScenarioCalls ==
    {<<Triangle, TriangleParams>>, <<Staircase, StaircaseParams>>,
     <<TwoPeaks, StaircaseParams>>}
        \cup {<<Zigzag, p>> : p \in ParamSet}

DetectCalls == (SeriesUpTo(MaxLen) \X ParamSet) \cup ScenarioCalls

\* Inputs of a direct call of a helper: a list of positions and a series
\* that is 0 off these positions (the helpers read the series at the listed
\* positions only, and a listed position survived the amplitude filter, so
\* its value is not missing).
HelperCalls ==
    {<<s, Ascending(P)>> :
        <<s, P>> \in {c \in [1 .. MaxLen -> (-MaxMag .. MaxMag)] \X SUBSET (0 .. MaxLen - 1) :
                        \A p \in Positions(c[1]) : p \notin c[2] => At(c[1], p) = 0}}

Frames ==
    UNION {[cols -> [1 .. n -> -1 .. 1]] : cols \in SUBSET Columns, n \in 1 .. MaxRows}

Idle ==
    /\ trend = <<>> /\ rawtrend = <<>> /\ amp_thr = NaNR
    /\ final = <<>> /\ rest = <<>> /\ swing_flag = <<>>
    /\ err = "none" /\ momentum = <<>>

InitDetect ==
    /\ call = "detect_swings" /\ pc = "start"
    /\ \E c \in DetectCalls : m = c[1] /\ params = c[2]
    /\ pos_idx = <<>> /\ keep_pos = <<>>
    /\ df_match = <<>> /\ method = <<>>
    /\ Idle

InitCompress ==
    /\ call = "_compress_consecutive_by_max_abs" /\ pc = "start"
    /\ \E c \in HelperCalls : m = c[1] /\ pos_idx = c[2]
    /\ params = DefaultParams /\ keep_pos = <<>>
    /\ df_match = <<>> /\ method = <<>>
    /\ Idle

InitCooldown ==
    /\ call = "_apply_cooldown_keep_max_abs" /\ pc = "cooldown"
    /\ \E c \in HelperCalls : m = c[1] /\ keep_pos = c[2]
    /\ \E c \in 0 .. MaxCool : params = [DefaultParams EXCEPT !.cool = c]
    /\ pos_idx = <<>>
    /\ df_match = <<>> /\ method = <<>>
    /\ Idle

InitMomentum ==
    /\ call = "compute_momentum" /\ pc = "start"
    /\ df_match \in Frames
    /\ method \in [method : Methods, window : Windows, span : Spans]
    /\ m = <<>> /\ params = DefaultParams /\ pos_idx = <<>> /\ keep_pos = <<>>
    /\ Idle

Init == InitDetect \/ InitCompress \/ InitCooldown \/ InitMomentum

----------------------------------------------------------------------------
(* detect_swings *)

\* lines 42-43
DetectRaise ==
    /\ call = "detect_swings" /\ pc = "start"
    /\ isna_all(m)
    /\ err' = "ValueError"
    /\ pc' = "raised"
    /\ UNCHANGED <<call, m, params, trend, rawtrend, amp_thr, pos_idx, keep_pos,
                   final, rest, swing_flag, df_match, method, momentum>>

\* lines 46-49
DetectTrend ==
    /\ call = "detect_swings" /\ pc = "start"
    /\ ~isna_all(m)
    /\ rawtrend' = ewm_mean(diff(m), params.trend_span)
    /\ trend' = Trend(m, params)
    /\ pc' = "rev"
    /\ UNCHANGED <<call, m, params, amp_thr, pos_idx, keep_pos,
                   final, rest, swing_flag, err, df_match, method, momentum>>

\* lines 52-66
DetectCandidates ==
    /\ call = "detect_swings" /\ pc = "rev"
    /\ amp_thr' = quantile(m, params.amp_q)
    /\ pos_idx' = candidates(m, trend, amp_thr')
    /\ pc' = "compress"
    /\ UNCHANGED <<call, m, params, trend, rawtrend, keep_pos,
                   final, rest, swing_flag, err, df_match, method, momentum>>

\* line 68
DetectCompress ==
    /\ call = "detect_swings" /\ pc = "compress"
    /\ keep_pos' = _compress_consecutive_by_max_abs(m, pos_idx)
    /\ pc' = "cooldown"
    /\ UNCHANGED <<call, m, params, trend, rawtrend, amp_thr, pos_idx,
                   final, rest, swing_flag, err, df_match, method, momentum>>

\* lines 73-77; the list the cooldown returned (final) is the kept list
DetectFlags ==
    /\ call = "detect_swings" /\ pc = "flags"
    /\ swing_flag' = flags(m, final)
    /\ pc' = "done"
    /\ UNCHANGED <<call, m, params, trend, rawtrend, amp_thr, pos_idx, keep_pos,
                   final, rest, err, df_match, method, momentum>>

----------------------------------------------------------------------------
(* _compress_consecutive_by_max_abs called on its own *)

CallCompress ==
    /\ call = "_compress_consecutive_by_max_abs" /\ pc = "start"
    /\ keep_pos' = _compress_consecutive_by_max_abs(m, pos_idx)
    /\ pc' = "done"
    /\ UNCHANGED <<call, m, params, trend, rawtrend, amp_thr, pos_idx,
                   final, rest, swing_flag, err, df_match, method, momentum>>

----------------------------------------------------------------------------
(* _apply_cooldown_keep_max_abs, from detect_swings (line 71) or on its own *)

\* lines 108-112
CooldownBegin ==
    /\ pc = "cooldown"
    /\ IF keep_pos = <<>>
       THEN final' = <<>> /\ rest' = <<>>
       ELSE LET k == sorted(keep_pos)
            IN  final' = <<Head(k)>> /\ rest' = Tail(k)
    /\ pc' = "scan"
    /\ UNCHANGED <<call, m, params, trend, rawtrend, amp_thr, pos_idx, keep_pos,
                   swing_flag, err, df_match, method, momentum>>

\* one iteration of the loop, lines 114-121
CooldownScan ==
    /\ pc = "scan"
    /\ rest # <<>>
    /\ final' = cooldown_step(m, final, Head(rest), params.cool)
    /\ rest' = Tail(rest)
    /\ UNCHANGED <<call, pc, m, params, trend, rawtrend, amp_thr, pos_idx, keep_pos,
                   swing_flag, err, df_match, method, momentum>>

\* line 123
CooldownReturn ==
    /\ pc = "scan"
    /\ rest = <<>>
    /\ pc' = IF call = "detect_swings" THEN "flags" ELSE "done"
    /\ UNCHANGED <<call, m, params, trend, rawtrend, amp_thr, pos_idx, keep_pos,
                   final, rest, swing_flag, err, df_match, method, momentum>>

----------------------------------------------------------------------------
(* compute_momentum *)

ComputeMomentum ==
    /\ call = "compute_momentum" /\ pc = "start"
    /\ LET r == compute_momentum(df_match, method.method, method.window, method.span)
       IN  /\ err' = r.err
           /\ momentum' = r.value
           /\ pc' = IF r.err = "none" THEN "done" ELSE "raised"
    /\ UNCHANGED <<call, m, params, trend, rawtrend, amp_thr, pos_idx, keep_pos,
                   final, rest, swing_flag, df_match, method>>

----------------------------------------------------------------------------

Next ==
    \/ DetectRaise
    \/ DetectTrend
    \/ DetectCandidates
    \/ DetectCompress
    \/ DetectFlags
    \/ CallCompress
    \/ CooldownBegin
    \/ CooldownScan
    \/ CooldownReturn
    \/ ComputeMomentum

Spec == Init /\ [][Next]_vars

----------------------------------------------------------------------------
(* Properties *)

Detecting == call = "detect_swings"
CoolingDown == call \in {"detect_swings", "_apply_cooldown_keep_max_abs"}

\* the cooldown has returned: final is the kept-position list
Returned == CoolingDown /\ pc \in {"flags", "done"}

Mag(p) == Abs(At(m, p))

Dropped == Range(keep_pos) \ Range(final)

\* C1: consecutive kept positions are in ascending order and at least cool
\* apart, after every step of the cooldown loop and in the returned list.
C1_CooldownGap ==
    (CoolingDown /\ pc \in {"scan", "flags", "done"}) =>
        \A i \in 1 .. Len(final) - 1 :
            final[i] < final[i + 1] /\ final[i + 1] - final[i] >= params.cool

\* detect_swings returned two or more kept positions, the last of which
\* replaced an earlier representative
C1_Witness ==
    /\ Detecting /\ pc = "done" /\ Len(final) >= 2 /\ params.cool >= 1
    /\ \E r \in Dropped : final[Len(final) - 1] < r /\ r < final[Len(final)]

\* C2 as stated: on the triangle wave the kept list is not empty and holds a
\* position within 1 of position 2 and a position within 1 of position 6.
C2_Original ==
    (Detecting /\ pc = "done" /\ m = Triangle /\ params = TriangleParams) =>
        /\ final # <<>>
        /\ \E p \in Range(final) : Abs(p - 2) <= 1
        /\ \E p \in Range(final) : Abs(p - 6) <= 1

\* C2 amended: on the triangle wave the threshold is 1, the reversals are at
\* positions 3 and 7 where |momentum| = 1 does not exceed it, so no candidate
\* survives: the kept list is empty and every flag is 0.
C2_TriangleEmpty ==
    (Detecting /\ pc = "done" /\ m = Triangle /\ params = TriangleParams) =>
        /\ amp_thr = <<1, 1>>
        /\ {p \in Positions(m) : p >= 1 /\
                \/ RPos(trend[p]) /\ ~RPos(trend[p + 1])
                \/ RNeg(trend[p]) /\ ~RNeg(trend[p + 1])} = {3, 7}
        /\ Mag(3) = 1 /\ Mag(7) = 1
        /\ pos_idx = <<>> /\ final = <<>>
        /\ swing_flag = [i \in 1 .. 11 |-> 0]

C2_Witness ==
    Detecting /\ pc = "done" /\ m = Triangle /\ params = TriangleParams

\* C3: the flag series has the length of the momentum series, is 1 exactly
\* at the kept positions and 0 elsewhere, and has as many 1s as the kept
\* list has entries, which are pairwise different.
C3_FlagsMatchKept ==
    (Detecting /\ pc = "done") =>
        /\ Len(swing_flag) = Len(m)
        /\ \A p \in Positions(m) :
              At(swing_flag, p) = IF \E i \in DOMAIN final : final[i] = p THEN 1 ELSE 0
        /\ Cardinality({i \in DOMAIN swing_flag : swing_flag[i] = 1}) = Len(final)
        /\ \A i, j \in DOMAIN final : final[i] = final[j] => i = j

C3_Witness ==
    Detecting /\ pc = "done" /\ Len(final) >= 2 /\ \E i \in DOMAIN swing_flag : swing_flag[i] = 0

\* positions a and b lie in one run of consecutive candidate positions
SameRun(a, b) ==
    \A x \in (IF a <= b THEN a .. b ELSE b .. a) : x \in Range(pos_idx)

\* p is the earliest position of maximum |momentum| of its run
RunBest(p) ==
    \A q \in Range(pos_idx) :
        SameRun(p, q) => Mag(q) < Mag(p) \/ (Mag(q) = Mag(p) /\ p <= q)

Compressed ==
    \/ call = "_compress_consecutive_by_max_abs" /\ pc = "done"
    \/ Detecting /\ pc \in {"cooldown", "scan", "flags", "done"}

\* C4: run compression returns, in ascending order, exactly one position per
\* maximal run of consecutive candidate positions: the earliest position of
\* maximum |momentum| of the run.
C4_OnePerRun ==
    Compressed =>
        /\ \A i \in 1 .. Len(keep_pos) - 1 : keep_pos[i] < keep_pos[i + 1]
        /\ Range(keep_pos) = {p \in Range(pos_idx) : RunBest(p)}

\* a run of three consecutive positions of pairwise different magnitude
\* whose middle position, the largest, is the representative
C4_Witness ==
    /\ Compressed
    /\ \E p \in Range(pos_idx) :
          /\ p + 1 \in Range(keep_pos) /\ p + 2 \in Range(pos_idx)
          /\ Mag(p) # Mag(p + 2) /\ Mag(p) < Mag(p + 1) /\ Mag(p + 2) < Mag(p + 1)

Bigger(last, p) == IF Mag(p) > Mag(last) THEN p ELSE last

C5_Step ==
    (CoolingDown /\ pc = "scan" /\ rest # <<>>
        /\ Head(rest) - final[Len(final)] < params.cool) =>
        /\ Len(final') = Len(final)
        /\ \A i \in 1 .. Len(final) - 1 : final'[i] = final[i]
        /\ final'[Len(final)] = Bigger(final[Len(final)], Head(rest))

C5_Pair ==
    (Returned /\ Len(keep_pos) = 2 /\ keep_pos[2] - keep_pos[1] < params.cool) =>
        final = <<Bigger(keep_pos[1], keep_pos[2])>>

\* C5: a loop step whose representative is closer than cool to the last kept
\* entry leaves the length and the earlier entries of the kept list as they
\* are and makes the last entry the one of larger |momentum|, the last kept
\* entry on a tie; two representatives closer than cool give the single
\* larger one.
C5_ReplaceKeepsLarger == [](C5_Pair) /\ [][C5_Step]_vars

\* the second of two representatives closer than cool has replaced the first
C5_Witness ==
    /\ Returned /\ Len(keep_pos) = 2 /\ keep_pos[2] - keep_pos[1] < params.cool
    /\ Mag(keep_pos[2]) > Mag(keep_pos[1])
    /\ final = <<keep_pos[2]>>

\* C6: detect_swings raises the empty-series error exactly when no value of
\* the series is usable; it raises before any step has computed anything,
\* and returns nothing.
C6_EmptySeriesError ==
    Detecting =>
        /\ (pc # "start" /\ \A i \in DOMAIN m : m[i] = NaN) =>
              /\ pc = "raised" /\ err = "ValueError"
              /\ rawtrend = <<>> /\ trend = <<>> /\ amp_thr = NaNR
              /\ pos_idx = <<>> /\ keep_pos = <<>> /\ final = <<>> /\ swing_flag = <<>>
        /\ (pc # "start" /\ \E i \in DOMAIN m : m[i] # NaN) =>
              /\ pc # "raised" /\ err = "none"
        /\ (pc = "start") => err = "none"

\* a series that is not empty and all missing has raised
C6_Witness ==
    Detecting /\ pc = "raised" /\ Len(m) >= 2

NoMomentum == err # "none" /\ pc = "raised" /\ momentum = <<>>

\* C7: compute_momentum raises the missing-input error when the column its
\* method reads is absent, the unsupported-method error for every other
\* method name, returns no series when it raises, and succeeds when the
\* column of its method is present.
C7_MomentumErrors ==
    (call = "compute_momentum" /\ pc # "start") =>
        LET cols == DOMAIN df_match
            mt == method.method
            rows == Cardinality(UNION {DOMAIN df_match[c] : c \in cols})
        IN  /\ (mt \in {"rm", "ewm"} /\ "point_result" \notin cols) =>
                  err = "KeyError" /\ NoMomentum
            /\ (mt = "srv_ewm" /\ "serve_adj_p1" \notin cols) =>
                  err = "KeyError" /\ NoMomentum
            /\ (mt \notin {"rm", "ewm", "srv_ewm"}) =>
                  err = "ValueError" /\ NoMomentum
            /\ (\/ mt \in {"rm", "ewm"} /\ "point_result" \in cols
                \/ mt = "srv_ewm" /\ "serve_adj_p1" \in cols) =>
                  err = "none" /\ pc = "done" /\ Len(momentum) = rows

\* method "ewm" succeeded on a frame without the serve-adjusted column
C7_Witness ==
    /\ call = "compute_momentum" /\ pc = "done"
    /\ method.method = "ewm" /\ DOMAIN df_match = {"point_result"}

Filled == Detecting /\ pc \notin {"start", "raised"} /\ params.fill_zero_trend

\* a non-zero value of the unfilled trend precedes index i
HasNonZeroBefore(i) == \E j \in 1 .. i - 1 : RPos(rawtrend[j]) \/ RNeg(rawtrend[j])

NearestNonZeroBefore(i) ==
    rawtrend[CHOOSE j \in 1 .. i - 1 :
                /\ RPos(rawtrend[j]) \/ RNeg(rawtrend[j])
                /\ \A k \in j + 1 .. i - 1 : ~(RPos(rawtrend[k]) \/ RNeg(rawtrend[k]))]

\* C8 as stated: a zero trend value takes the nearest preceding non-zero
\* value, and stays 0 when there is none.
C8_Original ==
    Filled =>
        \A i \in DOMAIN rawtrend :
            RZero(rawtrend[i]) =>
                trend[i] = IF HasNonZeroBefore(i) THEN NearestNonZeroBefore(i) ELSE <<0, 1>>

\* C8 amended: a zero trend value takes the nearest preceding non-zero value,
\* and becomes a missing value when there is none; after the fill no trend
\* value is 0, and a value that was not 0 is unchanged.
C8_ZeroFilledOrMissing ==
    Filled =>
        /\ Len(trend) = Len(rawtrend)
        /\ \A i \in DOMAIN rawtrend :
              /\ RZero(rawtrend[i]) =>
                    trend[i] = IF HasNonZeroBefore(i) THEN NearestNonZeroBefore(i) ELSE NaNR
              /\ ~RZero(rawtrend[i]) => trend[i] = rawtrend[i]
              /\ ~RZero(trend[i])

\* a leading zero became missing and a later zero was filled
C8_Witness ==
    /\ Filled
    /\ \E i, j \in DOMAIN rawtrend :
          /\ RZero(rawtrend[i]) /\ IsNaNR(trend[i])
          /\ RZero(rawtrend[j]) /\ ~IsNaNR(trend[j])

\* C9 as stated, for detect_swings: a representative that is not kept lies
\* closer than cool to a kept position of at least its magnitude.
C9_Original ==
    (Detecting /\ pc = "done") =>
        \A r \in Dropped :
            \E k \in Range(final) : Abs(r - k) < params.cool /\ Mag(k) >= Mag(r)

\* C9 amended: a representative that is not kept has a kept position of at
\* least its magnitude as its neighbour in the kept list (no kept position
\* lies between the two); that position can be cool or more away.
C9_DominatedByNeighbour ==
    Returned =>
        \A r \in Dropped :
            \E k \in Range(final) :
                /\ Mag(k) >= Mag(r)
                /\ \A k2 \in Range(final) : ~(r < k2 /\ k2 < k) /\ ~(k < k2 /\ k2 < r)

\* a dropped representative is cool or more away from every kept position
C9_Witness ==
    /\ Returned /\ params.cool >= 1
    /\ \E r \in Dropped : \A k \in Range(final) : Abs(r - k) >= params.cool

\* C10: a kept position is an amplitude-surviving reversal candidate, is
\* neither 0 nor 1, and was a surviving candidate and a representative.
C10_KeptAreCandidates ==
    (Detecting /\ pc \in {"flags", "done"}) =>
        /\ Range(final) \subseteq Range(keep_pos)
        /\ Range(keep_pos) \subseteq Range(pos_idx)
        /\ \A p \in Range(final) :
              /\ p >= 2 /\ p < Len(m)
              /\ At(m, p) # NaN
              /\ Mag(p) * amp_thr[2] > amp_thr[1]
              /\ \/ RPos(trend[p]) /\ (RNeg(trend[p + 1]) \/ RZero(trend[p + 1]))
                 \/ RNeg(trend[p]) /\ (RPos(trend[p + 1]) \/ RZero(trend[p + 1]))

\* a kept position where the trend falls from positive to exactly 0
C10_Witness ==
    /\ Detecting /\ pc = "done"
    /\ \E p \in Range(final) : RPos(trend[p]) /\ RZero(trend[p + 1])

====
